---------------------------- MODULE Spec2Model ----------------------------
(***************************************************************************)
(* A model of src/app/page.tsx: the prompt-to-style mapping                *)
(* (hashPrompt, mulberry32, generatePalette, extractFeatures) and the      *)
(* generation driver of HomePage (handleGenerate, resetRecorder,           *)
(* generateVideo, the animate frame callback and the recorder's events).   *)
(*                                                                         *)
(* Conventions.                                                            *)
(*  - A string is the sequence of its UTF-16 code units.                   *)
(*  - A 32-bit word is a record [hi, lo] of its two 16-bit halves, so that *)
(*    no intermediate product leaves the range of the checker's integers.  *)
(*  - waveHeight, warpFactor and grain are in hundredths; speed is in      *)
(*    units of 1/25500, in which 0.8 + b/255 is (204 + b)/255 and every    *)
(*    product of lines 118 is an integer when computed exactly.            *)
(*  - Timestamps are in milliseconds.                                      *)
(***************************************************************************)
EXTENDS Integers, Sequences, FiniteSets, TLC

(***************************************************************************)
(* 32-bit arithmetic                                                       *)
(***************************************************************************)
Half == 65536

W32(hi, lo) == [hi |-> hi, lo |-> lo]

\* bit p (a power of two) of a XOR b, and of a OR b, in place
XorBit(a, b, p) == p * ((((a \div p) % 2) + ((b \div p) % 2)) % 2)

OrBit(a, b, p) == p * (IF ((a \div p) % 2) + ((b \div p) % 2) > 0 THEN 1 ELSE 0)

\* a XOR b and a OR b of two 16-bit numbers
Xor16(a, b) ==
  XorBit(a, b, 1) + XorBit(a, b, 2) +
  XorBit(a, b, 4) + XorBit(a, b, 8) +
  XorBit(a, b, 16) + XorBit(a, b, 32) +
  XorBit(a, b, 64) + XorBit(a, b, 128) +
  XorBit(a, b, 256) + XorBit(a, b, 512) +
  XorBit(a, b, 1024) + XorBit(a, b, 2048) +
  XorBit(a, b, 4096) + XorBit(a, b, 8192) +
  XorBit(a, b, 16384) + XorBit(a, b, 32768)

Or16(a, b) ==
  OrBit(a, b, 1) + OrBit(a, b, 2) +
  OrBit(a, b, 4) + OrBit(a, b, 8) +
  OrBit(a, b, 16) + OrBit(a, b, 32) +
  OrBit(a, b, 64) + OrBit(a, b, 128) +
  OrBit(a, b, 256) + OrBit(a, b, 512) +
  OrBit(a, b, 1024) + OrBit(a, b, 2048) +
  OrBit(a, b, 4096) + OrBit(a, b, 8192) +
  OrBit(a, b, 16384) + OrBit(a, b, 32768)

Xor32(x, y) == W32(Xor16(x.hi, y.hi), Xor16(x.lo, y.lo))

Or32(x, y) == W32(Or16(x.hi, y.hi), Or16(x.lo, y.lo))

Add32(x, y) ==
  LET lo == x.lo + y.lo
  IN  W32((x.hi + y.hi + (lo \div Half)) % Half, lo % Half)

\* x >>> k, for 0 < k < 16
Shr32(x, k) ==
  W32(x.hi \div 2^k,
      (x.hi % 2^k) * 2^(16 - k) + (x.lo \div 2^k))

\* the low and the high half of the product of two 16-bit numbers
MulLo16(a, b) == ((a % 256) * b + ((((a \div 256) * b) % 256) * 256)) % Half

MulHi16(a, b) ==
  LET p0 == (a % 256) * b
      p1 == (a \div 256) * b
  IN  ((p0 + (p1 % 256) * 256) \div Half) + (p1 \div 256)

\* Math.imul: the low 32 bits of the product
Imul(x, y) ==
  W32((MulHi16(x.lo, y.lo) + MulLo16(x.lo, y.hi) + MulLo16(x.hi, y.lo)) % Half,
      MulLo16(x.lo, y.lo))

\* Math.floor((u / 4294967296) * k) for a 32-bit u and a small k
ScaleFloor(u, k) == (u.hi * k + ((u.lo * k) \div Half)) \div Half

(***************************************************************************)
(* hashPrompt, mulberry32, generatePalette                                 *)
(***************************************************************************)
FnvOffsetBasis == W32(33052, 40389)      \* 2166136261 = 0x811c9dc5

FnvPrime == W32(256, 403)                \* 16777619 = 0x01000193

Word32 == [hi : 0..(Half - 1), lo : 0..(Half - 1)]

\* lines 51-52: one round of the loop
hashRound[hash \in Word32, code \in 0..(Half - 1)] ==
  Imul(Xor32(hash, W32(0, code)), FnvPrime)

\* lines 49-55: loop[hash, first, last] is the accumulator after the rounds
\* of the characters first..last, entered with the accumulator hash
hashPrompt(prompt) ==
  LET loop[hash \in Word32, first \in 1..Len(prompt), last \in 1..Len(prompt)] ==
        IF first = last THEN hashRound[hash, prompt[first]]
        ELSE LET middle == (first + last) \div 2
             IN  loop[loop[hash, first, middle], middle + 1, last]
  IN  IF prompt = << >> THEN FnvOffsetBasis
      ELSE loop[FnvOffsetBasis, 1, Len(prompt)]

\* one call of the generator mulberry32 returns: the seed it leaves behind
\* and the 32-bit numerator of the value it returns
MulberrySeed(seed) == Add32(seed, W32(27947, 31221))       \* 0x6d2b79f5

MulberryOut(seed) ==
  LET t1 == Imul(Xor32(seed, Shr32(seed, 15)), Or32(W32(0, 1), seed))
      t2 == Xor32(Add32(t1, Imul(Xor32(t1, Shr32(t1, 7)), Or32(W32(0, 61), t1))),
                  t1)
  IN  Xor32(t2, Shr32(t2, 14))

\* the seed after n calls
mulberry32(seed, n) ==
  LET state[k \in 0..n] == IF k = 0 THEN seed ELSE MulberrySeed(state[k - 1])
  IN  state[n]

\* the numerator (over 2^32) of the value returned by the n-th call
Random(seed, n) == MulberryOut(mulberry32(seed, n))

HslColor(seed, i) ==
  << "hsl",
     ScaleFloor(Random(seed, 3 * i + 1), 360),
     40 + ScaleFloor(Random(seed, 3 * i + 2), 45),
     35 + ScaleFloor(Random(seed, 3 * i + 3), 35) >>

generatePalette(seed) == [i \in 1..4 |-> HslColor(seed, i - 1)]

(***************************************************************************)
(* Strings                                                                 *)
(***************************************************************************)
LowerChar(c) == IF c >= 65 /\ c <= 90 THEN c + 32 ELSE c

toLowerCase(s) == [i \in 1..Len(s) |-> LowerChar(s[i])]

includes(s, sub) ==
  \E i \in 0..(Len(s) - Len(sub)) : SubSeq(s, i + 1, i + Len(sub)) = sub

WhiteSpace == {9, 10, 11, 12, 13, 32, 160}

\* String.prototype.trim: from the first to the last character that is not
\* white space
trim(s) ==
  LET kept == {i \in 1..Len(s) : s[i] \notin WhiteSpace}
  IN  IF kept = {} THEN << >>
      ELSE SubSeq(s, CHOOSE i \in kept : \A j \in kept : i <= j,
                     CHOOSE i \in kept : \A j \in kept : i >= j)

(***************************************************************************)
(* keywordPalettes, keywordStyles                                          *)
(***************************************************************************)
\* Object.keys(keywordPalettes), in insertion order
KeywordOrder ==
  << "ocean", "aurora", "fire", "neon", "forest", "desert",
     "cosmic", "cyber", "dream", "storm", "zen" >>

KeywordText ==
  [ ocean  |-> <<111, 99, 101, 97, 110>>,
    aurora |-> <<97, 117, 114, 111, 114, 97>>,
    fire   |-> <<102, 105, 114, 101>>,
    neon   |-> <<110, 101, 111, 110>>,
    forest |-> <<102, 111, 114, 101, 115, 116>>,
    desert |-> <<100, 101, 115, 101, 114, 116>>,
    cosmic |-> <<99, 111, 115, 109, 105, 99>>,
    cyber  |-> <<99, 121, 98, 101, 114>>,
    dream  |-> <<100, 114, 101, 97, 109>>,
    storm  |-> <<115, 116, 111, 114, 109>>,
    zen    |-> <<122, 101, 110>> ]

keywordPalettes ==
  [ ocean  |-> <<"#0ea5e9", "#22d3ee", "#2563eb", "#0f172a">>,
    aurora |-> <<"#7c3aed", "#22d3ee", "#22c55e", "#0f172a">>,
    fire   |-> <<"#f97316", "#ef4444", "#facc15", "#7f1d1d">>,
    neon   |-> <<"#f472b6", "#22d3ee", "#a855f7", "#1f2937">>,
    forest |-> <<"#15803d", "#4ade80", "#0f766e", "#0b1120">>,
    desert |-> <<"#f59e0b", "#fcd34d", "#f97316", "#1f2937">>,
    cosmic |-> <<"#38bdf8", "#6366f1", "#a855f7", "#020617">>,
    cyber  |-> <<"#22d3ee", "#06b6d4", "#facc15", "#082f49">>,
    dream  |-> <<"#f9a8d4", "#c084fc", "#60a5fa", "#1f1b3a">>,
    storm  |-> <<"#38bdf8", "#1d4ed8", "#0f172a", "#1e293b">>,
    zen    |-> <<"#10b981", "#34d399", "#22d3ee", "#0f172a">> ]

\* one unit of speed is 1/25500
SpeedOf(hundredths) == hundredths * 255

\* there is no entry for "desert"
keywordStyles ==
  [ ocean  |-> [motionStyle |-> "wave", mood |-> "calm", waveHeight |-> 90],
    aurora |-> [motionStyle |-> "nebula", mood |-> "dreamy", warpFactor |-> 110],
    fire   |-> [motionStyle |-> "burst", mood |-> "intense", sparkle |-> TRUE,
               speed |-> SpeedOf(140)],
    neon   |-> [motionStyle |-> "particle", mood |-> "dynamic", sparkle |-> TRUE],
    forest |-> [motionStyle |-> "wave", mood |-> "calm", particleCount |-> 120],
    cosmic |-> [motionStyle |-> "nebula", mood |-> "dreamy", warpFactor |-> 140],
    cyber  |-> [motionStyle |-> "particle", mood |-> "dynamic",
               speed |-> SpeedOf(130)],
    dream  |-> [motionStyle |-> "nebula", mood |-> "dreamy", sparkle |-> TRUE,
               grain |-> 45],
    storm  |-> [motionStyle |-> "burst", mood |-> "intense",
               particleCount |-> 180],
    zen    |-> [motionStyle |-> "wave", mood |-> "calm", speed |-> SpeedOf(70)] ]

(***************************************************************************)
(* extractFeatures                                                         *)
(***************************************************************************)
DefaultToken == <<100, 101, 102, 97, 117, 108, 116>>       \* "default"

\* lines 82-84: the indices, in table order, of the keywords the text includes
matchedKeywords(normalized) ==
  SelectSeq(KeywordOrder, LAMBDA k : includes(normalized, KeywordText[k]))

\* lines 86-89
basePalette(keywords, hash) ==
  IF Len(keywords) > 0
  THEN keywordPalettes[keywords[1]]
  ELSE generatePalette(Xor32(hash, W32(40503, 31153)))      \* 0x9e3779b1

\* lines 91-101
defaultFeatures(palette) ==
  [ palette       |-> palette,
    motionStyle   |-> "wave",
    particleCount |-> 150,
    waveHeight    |-> 70,
    warpFactor    |-> 100,
    sparkle       |-> FALSE,
    grain         |-> 35,
    speed         |-> SpeedOf(100),
    mood          |-> "dreamy" ]

\* lines 104-106: Object.assign(features, overrides)
assignOverrides(features, keyword) ==
  IF keyword \notin DOMAIN keywordStyles THEN features
  ELSE keywordStyles[keyword] @@ features

\* lines 103-107 with the first matched keyword's overrides alone
applyFirstOverride(features, keywords) ==
  IF Len(keywords) = 0 THEN features
  ELSE assignOverrides(features, keywords[1])

\* lines 103-107: keywords.forEach(...); after[i] is the descriptor after the
\* first i keywords
applyOverrides(features, keywords) ==
  LET after[i \in 0..Len(keywords)] ==
        IF i = 0 THEN features
        ELSE assignOverrides(after[i - 1], keywords[i])
  IN  after[Len(keywords)]

Max(a, b) == IF a >= b THEN a ELSE b

Min(a, b) == IF a <= b THEN a ELSE b

\* line 114: Math.floor(((hash & 0xff) / 255) * 60 - 30); the double arithmetic
\* of the source gives this value for each of the 256 low bytes
countJitter(hash) == (((hash.lo % 256) * 60) \div 255) - 30

\* lines 109-116
clampParticleCount(count, hash) == Max(80, Min(260, count + countJitter(hash)))

\* line 118 without the 0.8
scaleSpeedFromZero(speed, hash) == (speed * ((hash.lo \div 256) % 256)) \div 255

\* line 118: speed * (0.8 + ((hash >>> 8) & 0xff) / 255)
scaleSpeed(speed, hash) == (speed * (204 + ((hash.lo \div 256) % 256))) \div 255

\* lines 109-118
applyJitter(features, hash) ==
  [features EXCEPT !.particleCount = clampParticleCount(@, hash),
                   !.speed = scaleSpeed(@, hash)]

\* lines 91-118, given the base palette, the matched keywords and the hash
styleFeatures(palette, keywords, hash) ==
  applyJitter(applyOverrides(defaultFeatures(palette), keywords), hash)

\* lines 86-120, given the matched keywords and the hash
deriveFeatures(keywords, hash) ==
  styleFeatures(basePalette(keywords, hash), keywords, hash)

\* line 81: normalized || "default"
hashInput(normalized) == IF normalized = << >> THEN DefaultToken ELSE normalized

extractFeatures(prompt) ==
  LET normalized == toLowerCase(prompt)
  IN  deriveFeatures(matchedKeywords(normalized), hashPrompt(hashInput(normalized)))

(***************************************************************************)
(* Constants of the page                                                   *)
(***************************************************************************)
STAGES ==
  << "Parsing cinematic intent", "Designing volumetric scene",
     "Animating neural keyframes", "Applying cinematic grade",
     "Rendering final sequence" >>

VIDEO_DURATION_MS == 5200

FPS == 30

\* line 138: the initial value of the prompt state
\* "An aurora lights up a futuristic city skyline reflected on water"
InitialPrompt ==
  << 65, 110, 32, 97, 117, 114, 111, 114, 97, 32, 108, 105, 103, 104, 116,
     115, 32, 117, 112, 32, 97, 32, 102, 117, 116, 117, 114, 105, 115, 116,
     105, 99, 32, 99, 105, 116, 121, 32, 115, 107, 121, 108, 105, 110, 101,
     32, 114, 101, 102, 108, 101, 99, 116, 101, 100, 32, 111, 110, 32, 119,
     97, 116, 101, 114 >>

\* line 542: "A neon desert of synthwave dunes under twin moons"
NextPrompt ==
  << 65, 32, 110, 101, 111, 110, 32, 100, 101, 115, 101, 114, 116, 32, 111,
     102, 32, 115, 121, 110, 116, 104, 119, 97, 118, 101, 32, 100, 117, 110,
     101, 115, 32, 117, 110, 100, 101, 114, 32, 116, 119, 105, 110, 32, 109,
     111, 111, 110, 115 >>

(***************************************************************************)
(* State                                                                   *)
(***************************************************************************)
VARIABLES
  prompt,           \* useState: the text of the prompt field
  previewFeatures,  \* useMemo(() => extractFeatures(prompt), [prompt])
  videoUrl,         \* useState: None, or Some blob behind the URL
  isGenerating,     \* useState
  status,           \* useState
  error,            \* useState: Undefined, or the message shown
  canvasRef,        \* TRUE while canvasRef.current is the mounted canvas
  recorderRef,      \* 0 for null, or the run whose recorder it holds
  chunksRef,        \* the runs whose data the chunks hold, in order
  animationRef,     \* 0 for undefined, or the run that requested the handle it holds
  now,              \* performance.now()
  frameAtNow,       \* an animation frame with the timestamp now has been run
  rafQueue,         \* the runs with a frame callback pending, in request order
  runs,             \* the invocations of handleGenerate
  probe             \* a descriptor derived from given keywords and hash bytes

pageVars == <<prompt, previewFeatures>>

driverVars ==
  << videoUrl, isGenerating, status, error, canvasRef, recorderRef, chunksRef,
     animationRef, now, frameAtNow, rafQueue, runs >>

vars == <<pageVars, driverVars, probe>>

Undefined == "undefined"

\* a value that may be missing
None == << >>

Some(value) == <<value>>

NoProbe == << >>

MaxRuns == 2

MaxTicks == 4

\* the clock advances in halves of the duration
TickMs == VIDEO_DURATION_MS \div 2

MaxClock == MaxTicks * TickMs

\* no run starts so late that the clock stops before its duration has elapsed
StartDeadline == MaxClock - VIDEO_DURATION_MS - TickMs

\* an animation frame's timestamp is the time the frame began, which is up to
\* half a frame interval before the time its callbacks run
FrameLagMs == (1000 \div FPS) \div 2

Runs == 1..MaxRuns

IdleRun ==
  [ pc |-> "idle", cause |-> "", promptSource |-> << >>, start |-> 0,
    noise |-> None, features |-> None, recorder |-> "none",
    drawn |-> {}, progress |-> None ]

\* a run whose timer, frame callback and recorder events are all behind it
\* has left the program: the model keeps how it ended
Live(run) ==
  \/ run.pc \in {"idle", "waiting", "animating"}
  \/ run.recorder \in {"recording", "stopping"}

Settle(rs) ==
  [ r \in Runs |->
      IF Live(rs[r]) THEN rs[r]
      ELSE [IdleRun EXCEPT !.pc = rs[r].pc, !.cause = rs[r].cause,
                           !.recorder = rs[r].recorder] ]

\* the text typed into the prompt field: "Ocean"
DriverPrompts == { <<79, 99, 101, 97, 110>> }

\* line 315-316: the seed of the noise field
noiseSeed(promptSource) == Or32(hashPrompt(promptSource), W32(10, 21425))  \* 0xa53b1

\* lines 315-318: what a run derives from its prompt
styleOf(promptSource) ==
  [features |-> extractFeatures(promptSource), noise |-> noiseSeed(promptSource)]

\* the state after construction and the first commit
PageInit ==
  /\ prompt = InitialPrompt
  /\ previewFeatures = extractFeatures(InitialPrompt)
  /\ videoUrl = None
  /\ isGenerating = FALSE
  /\ status = STAGES[1]
  /\ error = Undefined
  /\ canvasRef = TRUE
  /\ recorderRef = 0
  /\ chunksRef = << >>
  /\ animationRef = 0
  /\ now = 0
  /\ frameAtNow = FALSE
  /\ rafQueue = << >>
  /\ runs = [r \in Runs |-> IdleRun]

\* line 432 and line 543: setPrompt(value), and the memo of line 150 after it
SetPrompt(value) ==
  /\ prompt' = value
  /\ previewFeatures' = extractFeatures(value)

(***************************************************************************)
(* The generation driver.  Its handlers are callable whenever the event    *)
(* loop is idle: the attributes that disable or hide the buttons belong to *)
(* the markup around the driver, not to the driver.                        *)
(***************************************************************************)
CanvasUnsupported == "Canvas rendering is not supported in this environment."

EncoderUnavailable == "Unable to initialize video encoder in this browser."

Remove(queue, r) == SelectSeq(queue, LAMBDA q : q # r)

InQueue(r) == \E i \in DOMAIN rafQueue : rafQueue[i] = r

\* lines 279-283: the queue and the runs after stopAnimation()
stopAnimation(rs) ==
  IF animationRef # 0 /\ InQueue(animationRef)
  THEN [rs EXCEPT ![animationRef].pc = "cancelled"]
  ELSE rs

\* line 287: recorderRef.current?.stop() on a recording recorder
stopRecorder(rs) ==
  IF recorderRef # 0 /\ rs[recorderRef].recorder = "recording"
  THEN [rs EXCEPT ![recorderRef].recorder = "stopping"]
  ELSE rs

\* stop() of a recorder that is already inactive raises InvalidStateError in
\* browsers that follow the older text of the recording specification, and
\* does nothing in the others
StopRaises(rs, legacy) ==
  recorderRef # 0 /\ rs[recorderRef].recorder # "recording" /\ legacy

\* lines 383-401 up to the await of line 301, for a non-empty effective prompt
StartRun(r, effectivePrompt, legacy) ==
  LET stopped == stopRecorder(stopAnimation(runs))
  IN
  /\ rafQueue' = IF animationRef # 0 THEN Remove(rafQueue, animationRef)
                 ELSE rafQueue
  /\ UNCHANGED <<canvasRef, animationRef, now, frameAtNow>>
  /\ IF StopRaises(runs, legacy)
     THEN \* line 287 throws; lines 391-397
          /\ runs' = Settle([stopAnimation(runs) EXCEPT
                        ![r].pc = "failed", ![r].cause = "teardown"])
          /\ error' = "InvalidStateError"
          /\ isGenerating' = FALSE
          /\ UNCHANGED <<recorderRef, chunksRef, videoUrl, status>>
     ELSE /\ recorderRef' = 0
          /\ chunksRef' = << >>
          /\ IF ~canvasRef
             THEN \* line 294
                  /\ runs' = Settle([stopped EXCEPT
                                ![r].pc = "returned", ![r].cause = "noCanvas"])
                  /\ UNCHANGED <<videoUrl, isGenerating, status, error>>
             ELSE \* lines 296-301
                  /\ runs' = Settle([stopped EXCEPT
                                ![r].pc = "waiting",
                                ![r].promptSource = effectivePrompt])
                  /\ isGenerating' = TRUE
                  /\ status' = STAGES[1]
                  /\ error' = Undefined
                  /\ videoUrl' = None

\* lines 383-401 up to the first await
handleGenerate(source, legacy) ==
  LET effectivePrompt == trim(source)
  IN  IF effectivePrompt = << >>
      THEN UNCHANGED driverVars
      ELSE /\ now <= StartDeadline
           /\ \E r \in Runs :
                /\ runs[r].pc = "idle"
                /\ \A q \in Runs : q < r => runs[q].pc # "idle"
                /\ StartRun(r, effectivePrompt, legacy)

\* lines 439-441: handleGenerate() with the prompt of the field
Generate(legacy) ==
  /\ handleGenerate(prompt, legacy)
  /\ UNCHANGED <<pageVars, probe>>

\* lines 540-545
SurpriseMeAgain(legacy) ==
  /\ handleGenerate(NextPrompt, legacy)
  /\ SetPrompt(NextPrompt)
  /\ UNCHANGED probe

Environments ==
  {"ok", "noContext", "noEncoder", "captureStreamThrows", "startThrows"}

\* lines 391-397, for an exception raised in generateVideo after the await
CatchSetup(r, message) ==
  /\ runs' = Settle([runs EXCEPT ![r].pc = "failed", ![r].cause = "setup"])
  /\ error' = message
  /\ isGenerating' = FALSE

\* lines 302-378: generateVideo after the timeout of line 301
ResumeAfterTimeout(r, env) ==
  /\ runs[r].pc = "waiting"
  /\ \A q \in Runs : q < r => runs[q].pc # "waiting"
  /\ now <= StartDeadline
  /\ status' = STAGES[2]
  /\ UNCHANGED <<pageVars, probe, videoUrl, canvasRef, now, frameAtNow>>
  /\ IF ~canvasRef
     THEN \* line 305: canvasRef.current is null
          /\ CatchSetup(r, "TypeError")
          /\ UNCHANGED <<recorderRef, chunksRef, animationRef, rafQueue>>
     ELSE IF env = "noContext"
     THEN \* lines 309-313
          /\ runs' = Settle([runs EXCEPT ![r].pc = "aborted", ![r].cause = "noContext"])
          /\ error' = CanvasUnsupported
          /\ isGenerating' = FALSE
          /\ UNCHANGED <<recorderRef, chunksRef, animationRef, rafQueue>>
     ELSE IF env = "captureStreamThrows"
     THEN \* line 320 throws, with the descriptor of lines 315-318 made
          /\ CatchSetup(r, "NotSupportedError")
          /\ UNCHANGED <<recorderRef, chunksRef, animationRef, rafQueue>>
     ELSE IF env = "noEncoder"
     THEN \* lines 335-339
          /\ runs' = Settle([runs EXCEPT ![r].pc = "aborted", ![r].cause = "noEncoder"])
          /\ error' = EncoderUnavailable
          /\ isGenerating' = FALSE
          /\ UNCHANGED <<recorderRef, chunksRef, animationRef, rafQueue>>
     ELSE IF env = "startThrows"
     THEN \* lines 341-342, then line 357 throws
          /\ recorderRef' = r
          /\ chunksRef' = << >>
          /\ runs' = Settle([runs EXCEPT ![r].pc = "failed", ![r].cause = "setup",
                                         ![r].recorder = "inactive"])
          /\ error' = "NotSupportedError"
          /\ isGenerating' = FALSE
          /\ UNCHANGED <<animationRef, rafQueue>>
     ELSE \* lines 315-318, 341-359, 378
          /\ recorderRef' = r
          /\ chunksRef' = << >>
          /\ LET style == styleOf(runs[r].promptSource)
             IN  runs' = [runs EXCEPT
                            ![r].pc = "animating",
                            ![r].noise = Some(style.noise),
                            ![r].features = Some(style.features),
                            ![r].recorder = "recording",
                            ![r].start = now]
          /\ animationRef' = r
          /\ rafQueue' = Append(rafQueue, r)
          /\ UNCHANGED <<error, isGenerating>>

\* line 363, times VIDEO_DURATION_MS: Math.min(1, elapsed / VIDEO_DURATION_MS)
progressOf(elapsed) == Min(VIDEO_DURATION_MS, elapsed)

\* lines 364-367
stageOf(progress) ==
  IF progress * 100 < 25 * VIDEO_DURATION_MS THEN STAGES[2]
  ELSE IF progress * 100 < 55 * VIDEO_DURATION_MS THEN STAGES[3]
  ELSE IF progress * 100 < 85 * VIDEO_DURATION_MS THEN STAGES[4]
  ELSE STAGES[5]

\* line 371 with <= for <
anotherFrameAtOne(progress) == progress <= VIDEO_DURATION_MS

\* line 371: progress < 1
anotherFrame(progress) == progress < VIDEO_DURATION_MS

\* line 369 with the descriptor of the page, previewFeatures, for that of
\* the run, activeFeatures
frameStyleOfPage(r) == [features |-> previewFeatures, noise |-> runs[r].noise[1]]

\* line 369: the descriptor and the noise field handed to drawFrame
frameStyle(r) == [features |-> runs[r].features[1], noise |-> runs[r].noise[1]]

\* the times the clock can show, and the timestamps of animation frames
ClockTimes == { tick * TickMs : tick \in 0..MaxTicks }

Timestamps == ClockTimes \cup { time - FrameLagMs : time \in ClockTimes \ {0} }

\* the timestamps an animation frame can carry now: they never decrease
FrameTimes ==
  IF frameAtNow \/ now < FrameLagMs THEN {now} ELSE {now - FrameLagMs, now}

\* lines 361-376: the frame callback of the run at the head of the queue
animate(timestamp, throws) ==
  /\ rafQueue # << >>
  /\ timestamp \in FrameTimes
  /\ LET r == Head(rafQueue)
         elapsed == timestamp - runs[r].start
         progress == progressOf(elapsed)
     IN
     /\ frameAtNow' = (timestamp = now)
     /\ status' = stageOf(progress)
     /\ UNCHANGED <<pageVars, probe, videoUrl, isGenerating, error, canvasRef,
                    recorderRef, chunksRef, now>>
     /\ IF throws
        THEN \* drawFrame raises: nothing catches it, nothing follows it
             /\ runs' = Settle([runs EXCEPT ![r].pc = "crashed", ![r].cause = "frame"])
             /\ rafQueue' = Tail(rafQueue)
             /\ UNCHANGED animationRef
        ELSE IF anotherFrame(progress)
        THEN \* line 372
             /\ runs' = [runs EXCEPT
                           ![r].drawn = @ \cup {frameStyle(r)},
                           ![r].progress = Some(progress)]
             /\ animationRef' = r
             /\ rafQueue' = Append(Tail(rafQueue), r)
        ELSE \* line 374; stop() of a recorder that is already inactive does
             \* nothing or raises, after the frame is drawn and with nothing
             \* to follow it in either case
             /\ runs' = Settle([runs EXCEPT
                           ![r].drawn = @ \cup {frameStyle(r)},
                           ![r].progress = Some(progress),
                           ![r].pc = "finished",
                           ![r].recorder =
                              IF @ = "recording" THEN "stopping" ELSE @])
             /\ rafQueue' = Tail(rafQueue)
             /\ UNCHANGED animationRef

\* lines 343-355: the dataavailable and stop events of a stopped recorder
RecorderStopped(r, hasData) ==
  /\ runs[r].recorder = "stopping"
  /\ chunksRef' = IF hasData THEN Append(chunksRef, r) ELSE chunksRef
  /\ videoUrl' = Some([blob |-> chunksRef'])
  /\ isGenerating' = FALSE
  /\ status' = "Ready"
  /\ runs' = Settle([runs EXCEPT ![r].recorder = "inactive"])
  /\ UNCHANGED <<pageVars, probe, error, canvasRef, recorderRef, animationRef,
                 now, frameAtNow, rafQueue>>

\* line 502: the canvas is detached when the page is unmounted
Unmount ==
  /\ canvasRef
  /\ canvasRef' = FALSE
  /\ UNCHANGED <<pageVars, probe, videoUrl, isGenerating, status, error,
                 recorderRef, chunksRef, animationRef, now, frameAtNow, rafQueue,
                 runs>>

Tick ==
  /\ now < MaxClock
  /\ now' = now + TickMs
  /\ frameAtNow' = FALSE
  /\ UNCHANGED <<pageVars, probe, videoUrl, isGenerating, status, error,
                 canvasRef, recorderRef, chunksRef, animationRef, rafQueue,
                 runs>>

\* line 432
ChangePrompt(value) ==
  /\ SetPrompt(value)
  /\ UNCHANGED <<driverVars, probe>>

Init == PageInit /\ probe = NoProbe

Next ==
  \/ \E legacy \in BOOLEAN : Generate(legacy)
  \/ \E legacy \in BOOLEAN : SurpriseMeAgain(legacy)
  \/ \E r \in Runs, env \in Environments : ResumeAfterTimeout(r, env)
  \/ \E timestamp \in Timestamps, throws \in BOOLEAN : animate(timestamp, throws)
  \/ \E r \in Runs, hasData \in BOOLEAN : RecorderStopped(r, hasData)
  \/ \E value \in DriverPrompts : ChangePrompt(value)
  \/ Unmount
  \/ Tick

Spec == Init /\ [][Next]_vars

\* the clock advances, and a pending frame callback is run
FairSpec ==
  /\ Spec
  /\ WF_vars(Tick)
  /\ WF_vars(\E timestamp \in Timestamps, throws \in BOOLEAN :
                animate(timestamp, throws))

(***************************************************************************)
(* The prompt field alone: texts typed and pasted into it                  *)
(***************************************************************************)
MaxPromptLen == 12

\* " ", "Ocean", "ocean", "neon", "fire", "desert", "storm", "zen",
\* "forest", "sky"
Snippets ==
  { <<32>>, <<79, 99, 101, 97, 110>>, <<111, 99, 101, 97, 110>>,
    <<110, 101, 111, 110>>, <<102, 105, 114, 101>>,
    <<100, 101, 115, 101, 114, 116>>, <<115, 116, 111, 114, 109>>,
    <<122, 101, 110>>, <<102, 111, 114, 101, 115, 116>>, <<115, 107, 121>> }

\* "a calm ocean and a neon city"
CalmOceanNeonCity ==
  << 97, 32, 99, 97, 108, 109, 32, 111, 99, 101, 97, 110, 32, 97, 110, 100,
     32, 97, 32, 110, 101, 111, 110, 32, 99, 105, 116, 121 >>

Examples == { << >>, InitialPrompt, NextPrompt, CalmOceanNeonCity }

InitFeatures == PageInit /\ probe = NoProbe

TypeText(text) ==
  /\ Len(prompt) + Len(text) <= MaxPromptLen
  /\ SetPrompt(prompt \o text)
  /\ UNCHANGED <<driverVars, probe>>

PasteText(text) ==
  /\ SetPrompt(text)
  /\ UNCHANGED <<driverVars, probe>>

NextFeatures ==
  \/ \E text \in Snippets : TypeText(text)
  \/ \E text \in Examples : PasteText(text)

SpecFeatures == InitFeatures /\ [][NextFeatures]_vars

(***************************************************************************)
(* Lines 91-118 alone: the descriptor for given matched keywords and given *)
(* low and second bytes of the hash.  The palette plays no part in these   *)
(* lines; the probe carries the first keyword's palette, or that of the    *)
(* default token when no keyword matched.                                  *)
(***************************************************************************)
MaxMatched == 2

\* the subsequences of the table, as filter() of line 82 can return them
KeywordChoices ==
  { SelectSeq(KeywordOrder, LAMBDA k : k \in chosen) :
      chosen \in { c \in SUBSET DOMAIN KeywordText : Cardinality(c) <= MaxMatched } }

DefaultTokenPalette == basePalette(<< >>, hashPrompt(DefaultToken))

ProbePalette(keywords) ==
  IF Len(keywords) > 0 THEN keywordPalettes[keywords[1]] ELSE DefaultTokenPalette

\* lines 91-107 for the probe's keywords
ProbeStyled(keywords) ==
  applyOverrides(defaultFeatures(ProbePalette(keywords)), keywords)

\* lines 109-118 for the probe's hash bytes
ProbeJitter(styled, low, second) == applyJitter(styled, W32(0, second * 256 + low))

InitJitter ==
  /\ PageInit
  /\ \E keywords \in KeywordChoices :
       probe = [ keywords |-> keywords, low |-> 0, second |-> 0,
                 styled   |-> ProbeStyled(keywords),
                 features |-> ProbeJitter(ProbeStyled(keywords), 0, 0) ]

\* another prompt with the same keywords, whose hash has the next low byte
NextLowByte ==
  /\ probe.low < 255
  /\ probe' = [probe EXCEPT
                 !.low = @ + 1,
                 !.features = ProbeJitter(probe.styled, probe.low + 1, probe.second)]
  /\ UNCHANGED <<pageVars, driverVars>>

\* another prompt with the same keywords, whose hash has the next second
\* byte; the pairs of bytes are enumerated by the second byte first
NextSecondByte ==
  /\ probe.low = 0
  /\ probe.second < 255
  /\ probe' = [probe EXCEPT
                 !.second = @ + 1,
                 !.features = ProbeJitter(probe.styled, probe.low, probe.second + 1)]
  /\ UNCHANGED <<pageVars, driverVars>>

NextJitter == NextLowByte \/ NextSecondByte

SpecJitter == InitJitter /\ [][NextJitter]_vars

(***************************************************************************)
(* The generation driver: claims C1-C5, C9 and C10                         *)
(***************************************************************************)

\* C1: at most one run has a frame callback pending, and once a run has
\* drawn a frame no run started before it has a frame callback pending, so
\* that the frames of two runs are never interleaved
OneAnimationDriver ==
  \A r \in Runs, q \in Runs :
     r < q => /\ ~(InQueue(r) /\ InQueue(q))
              /\ runs[q].drawn # {} => ~InQueue(r)

Faulted == {"failed", "crashed"}

\* C2: a step in which an exception is raised in a run, in the teardown of
\* the run before it, in its set-up or in one of its frame callbacks, leaves
\* an error message shown and isGenerating false
FaultsAreReported ==
  [][ \A r \in Runs :
        (runs[r].pc \notin Faulted /\ runs'[r].pc \in Faulted)
           => (error' # Undefined /\ ~isGenerating') ]_vars

\* C3: a run that animates is later finished, unless it is cancelled or one
\* of its frame callbacks raises; a run drew a frame with progress 1 only as
\* its last frame, with which its recorder was stopped, and a finished run
\* has no frame callback pending
RunsToCompletion ==
  /\ \A r \in Runs :
       (runs[r].pc = "animating")
          ~> (runs[r].pc \in {"finished", "cancelled", "crashed"})
  /\ [](\A r \in Runs :
          /\ runs[r].progress = Some(VIDEO_DURATION_MS)
                => runs[r].pc = "finished"
          /\ runs[r].pc = "finished"
                => ~InQueue(r) /\ runs[r].recorder # "recording")

\* a run has drawn its frame of progress 1 and its recorder is stopping
FinalFrameDrawn ==
  \E r \in Runs :
     /\ runs[r].pc = "finished"
     /\ runs[r].progress = Some(VIDEO_DURATION_MS)
     /\ runs[r].recorder = "stopping"

Unavailable == {"noCanvas", "noContext", "noEncoder"}

\* C4: a step in which a run ends for want of a canvas, of a 2D context or
\* of a supported recorder type leaves an error message shown and
\* isGenerating false, and the run has drawn no frame
UnavailableIsReported ==
  [][ \A r \in Runs :
        (runs[r].cause \notin Unavailable /\ runs'[r].cause \in Unavailable)
           => (error' # Undefined /\ ~isGenerating' /\ runs'[r].drawn = {}) ]_vars

\* C5: every frame a run has drawn was drawn with one descriptor and one
\* noise field, those the run made when it began to animate
OneStylePerRun ==
  \A r \in Runs :
     \A style \in runs[r].drawn :
        /\ runs[r].features = Some(style.features)
        /\ runs[r].noise = Some(style.noise)

\* a run has drawn frames while another text stands in the prompt field
DrawnUnderAnotherPrompt ==
  \E r \in Runs :
     /\ runs[r].pc = "animating"
     /\ runs[r].drawn # {}
     /\ runs[r].progress # None /\ runs[r].progress[1] > 0
     /\ trim(prompt) # runs[r].promptSource

\* C9: the descriptor and the noise field of a run are those of the
\* lowercased prompt, so that prompts which differ only in letter case get
\* the same descriptor and the same noise field
StyleIgnoresCase ==
  \A r \in Runs :
     runs[r].noise # None
        => /\ runs[r].noise[1] = noiseSeed(toLowerCase(runs[r].promptSource))
           /\ runs[r].features[1]
                 = extractFeatures(toLowerCase(runs[r].promptSource))

\* C10: the progress a frame is drawn with is within [0, 1]
ProgressInUnitInterval ==
  \A r \in Runs :
     runs[r].progress # None
        => /\ 0 <= runs[r].progress[1]
           /\ runs[r].progress[1] <= VIDEO_DURATION_MS

(***************************************************************************)
(* extractFeatures: claims C6, C7 and C8                                   *)
(***************************************************************************)

\* the keywords of the table that occur in the lowercased text
Occurring(text) ==
  { k \in DOMAIN KeywordText : includes(toLowerCase(text), KeywordText[k]) }

TableIndex(keyword) == CHOOSE i \in DOMAIN KeywordOrder : KeywordOrder[i] = keyword

FirstInTable(keywords) ==
  CHOOSE k \in keywords : \A other \in keywords : TableIndex(k) <= TableIndex(other)

LastInTable(keywords) ==
  CHOOSE k \in keywords : \A other \in keywords : TableIndex(other) <= TableIndex(k)

\* the value a field is left with: that of the last keyword in table order,
\* among the given ones, whose overrides specify it, or else the default
LastWrite(keywords, field) ==
  LET writers == { k \in keywords \cap DOMAIN keywordStyles :
                     field \in DOMAIN keywordStyles[k] }
  IN  IF writers = {} THEN defaultFeatures(<< >>)[field]
      ELSE keywordStyles[LastInTable(writers)][field]

PlainFields == {"motionStyle", "mood", "waveHeight", "warpFactor", "grain", "sparkle"}

\* C6: the palette is that of the first keyword, in table order, that occurs
\* in the lowercased prompt; every other field has the value of the last
\* occurring keyword, in table order, that specifies it, or its default
\* (particleCount and speed with the jitter of lines 109-118 on top); and
\* "a calm ocean and a neon city" gets the palette of ocean and the
\* motionStyle of neon
OverridesInTableOrder ==
  LET keywords == Occurring(prompt)
      hash == hashPrompt(hashInput(toLowerCase(prompt)))
  IN  /\ keywords # {}
           => previewFeatures.palette = keywordPalettes[FirstInTable(keywords)]
      /\ \A field \in PlainFields :
           previewFeatures[field] = LastWrite(keywords, field)
      /\ previewFeatures.particleCount
           = clampParticleCount(LastWrite(keywords, "particleCount"), hash)
      /\ previewFeatures.speed = scaleSpeed(LastWrite(keywords, "speed"), hash)
      /\ prompt = CalmOceanNeonCity
           => /\ previewFeatures.palette = keywordPalettes.ocean
              /\ previewFeatures.motionStyle = keywordStyles.neon.motionStyle

\* the descriptor of "a calm ocean and a neon city" is shown
CalmOceanNeonCityShown ==
  /\ prompt = CalmOceanNeonCity
  /\ previewFeatures.palette = keywordPalettes.ocean
  /\ previewFeatures.motionStyle = "particle"
  /\ previewFeatures.waveHeight = 90

\* C7: particleCount is within [80, 260] and speed is greater than 0
ClampInvariant ==
  probe # NoProbe
     => /\ probe.features.particleCount \in 80..260
        /\ probe.features.speed > 0

\* the descriptor of a prompt that matches storm alone, with the greatest
\* low byte and the least second byte
StormAtExtremes ==
  /\ probe # NoProbe
  /\ probe.keywords = <<"storm">>
  /\ probe.low = 255 /\ probe.second = 0
  /\ probe.features.particleCount = 210
  /\ probe.features.speed = SpeedOf(80)

\* C8: the descriptor of a prompt that is empty after trimming is the one
\* derived from the hash of the default token
BlankPromptsUseDefaultToken ==
  trim(prompt) = << >>
     => previewFeatures = deriveFeatures(<< >>, hashPrompt(DefaultToken))

(***************************************************************************)
(* The generation driver: claim C11                                        *)
(***************************************************************************)

\* C11: while a run has a frame callback pending or its recorder is
\* recording, isGenerating is true
GeneratingWhileActive ==
  \A r \in Runs :
     (InQueue(r) \/ runs[r].recorder = "recording") => isGenerating

\* the stop event of a cancelled run's recorder has been delivered while a
\* later run animates: the page shows "Ready" and a video, and is not
\* generating, with that run's frame callback pending
StaleStopEndsGenerating ==
  \E r \in Runs, q \in Runs :
     /\ q < r
     /\ runs[q].pc = "cancelled" /\ runs[q].recorder = "inactive"
     /\ runs[r].pc = "animating" /\ InQueue(r)
     /\ runs[r].recorder = "recording"
     /\ ~isGenerating /\ videoUrl # None /\ status = "Ready"
=============================================================================
